---- MODULE Spec2Model ----
(***************************************************************************)
(* One run of app.py, the Streamlit front end of the microplastic          *)
(* detector: input acquisition (camera / example image / upload), the      *)
(* single POST to the detection endpoint, response parsing, the per-box    *)
(* size computation and the three-bucket size statistics.                  *)
(*                                                                         *)
(* Representation of sizes.  size_nm = np.sqrt(width_nm * height_nm) is a  *)
(* float64; a size is carried by its radicand width_nm * height_nm (an     *)
(* integer for integer pixel dimensions), of which the float64 value is a  *)
(* function.  All the script does with a size is order it and compare it   *)
(* with min_size * 1.10 and max_size * 0.90.  The order of two sizes is    *)
(* the order of their radicands (the correctly rounded square root is      *)
(* monotone, and injective on integers of this magnitude).  A threshold    *)
(* test is decided on the radicands,                                       *)
(*      s <= 1.10 * m   <=>   100 * s^2 <= 121 * m^2                       *)
(*      s >= 0.90 * m   <=>   100 * s^2 >=  81 * m^2                       *)
(* whenever the two sides differ: they then differ by a relative 2^-38 at  *)
(* least, far above the few units of 2^-53 that rounding can move either   *)
(* side.  When the two sides are equal the float64 values decide, and they *)
(* are computed bit for bit (fsqrt, fmul below).  avg_size (line 122) is   *)
(* assigned and never read, so it is not carried.                          *)
(***************************************************************************)
EXTENDS Integers, Sequences, FiniteSets, TLC

VARIABLES pc, input_mode, source, img_bytes, requests_sent, response,
          uncaught, total_count, boxes, status, risk_score, sizes_nm,
          counts, rendered

vars == <<pc, input_mode, source, img_bytes, requests_sent, response,
          uncaught, total_count, boxes, status, risk_score, sizes_nm,
          counts, rendered>>

(* ---------------- bounds ---------------- *)
MaxFileLen == 2
MaxNames == 2
MaxDim == 2
MaxBoxes == 3
MaxTotal == 3
FlowMaxBoxes == 1

(* ---------------- CONFIG ---------------- *)
PIXEL_TO_NM == 100

(* ---------------- values ---------------- *)
\* Python's None / a present value, as a set with at most one element.
None == {}
Some(v) == {v}
The(o) == CHOOSE v \in o : TRUE

Byte == {0, 1}
Files == UNION {[1..n -> Byte] : n \in 0..MaxFileLen}

\* PIL's Image.open(...).convert("RGB") succeeds on a file that starts with
\* an image signature (here: first byte 1) and raises otherwise.
IsImage(f) == Len(f) > 0 /\ f[1] = 1

\* dict.get(key, default)
Get(d, k, default) == IF k \in DOMAIN d THEN d[k] ELSE default

EmptyDict == [k \in {} |-> 0]

\* The boxes of an answer: well-formed ones with positive pixel dimensions,
\* and the degenerate shapes (a zero dimension, a missing width, a missing
\* height, neither key).
Dims == 1..MaxDim
BoxSet == [width : Dims, height : Dims]
          \cup {[width |-> 0, height |-> MaxDim], [width |-> MaxDim],
                [height |-> MaxDim], EmptyDict}
BoxLists(n) == UNION {[1..k -> BoxSet] : k \in 0..n}

\* Every JSON object the endpoint may answer with: each key optional.
JsonDicts(n, statuses, risks) ==
    {t @@ b @@ s @@ r :
        t \in {EmptyDict} \cup {[total_count |-> x] : x \in 0..MaxTotal},
        b \in {EmptyDict} \cup {[boxes |-> x] : x \in BoxLists(n)},
        s \in {EmptyDict} \cup {[status |-> x] : x \in statuses},
        r \in {EmptyDict} \cup {[risk_score |-> x] : x \in risks}}

\* What requests.post produced: an exception (raised), or a response with a
\* status code whose body is a JSON object (json) or is not JSON at all.
TransportError == [raised |-> TRUE, status_code |-> 0, json |-> FALSE, data |-> EmptyDict]
HttpResponses(dicts) ==
    [raised : {FALSE}, status_code : {200, 500}, json : {TRUE}, data : dicts]
    \cup [raised : {FALSE}, status_code : {200, 500}, json : {FALSE}, data : {EmptyDict}]
FlowResponses ==
    {TransportError} \cup HttpResponses(JsonDicts(FlowMaxBoxes, {"SAFE"}, {7}))

(* ---------------- helpers ---------------- *)
RECURSIVE sorted(_)
sorted(S) ==
    IF S = {} THEN <<>>
    ELSE LET m == CHOOSE x \in S : \A y \in S : x <= y
         IN <<m>> \o sorted(S \ {m})

Range(s) == {s[i] : i \in DOMAIN s}
min(s) == CHOOSE x \in Range(s) : \A y \in Range(s) : x <= y
max(s) == CHOOSE x \in Range(s) : \A y \in Range(s) : x >= y

\* st.stop(): the run halts here.
st_stop_skipped == "parse"
st_stop == "stopped"

\* line 63: if img_bytes is not None
has_bytes_truthy(b) == b # None /\ The(b) # <<>>
has_bytes(b) == b # None

\* line 86: the default of data.get("boxes", [])
boxes_default_one == <<EmptyDict>>
boxes_default == <<>>

\* lines 102-107: the radicand of size_nm for one box.
size_nm_width_only(box, pixel_to_nm) ==
    LET width_px == Get(box, "width", 0)
        width_nm == width_px * pixel_to_nm
    IN width_nm * width_nm
size_nm(box, pixel_to_nm) ==
    LET width_px == Get(box, "width", 0)
        height_px == Get(box, "height", 0)
        width_nm == width_px * pixel_to_nm
        height_nm == height_px * pixel_to_nm
    IN width_nm * height_nm

(* ---------------- float64 arithmetic ---------------- *)
\* Natural numbers of any size, as little-endian digit sequences in base B
\* without leading zeros (the mantissas and their products exceed 32 bits).
B == 2^14

RECURSIVE BNorm(_)
BNorm(a) ==
    IF a = <<>> THEN a
    ELSE IF a[Len(a)] = 0 THEN BNorm(SubSeq(a, 1, Len(a) - 1)) ELSE a

RECURSIVE BFromInt(_)
BFromInt(n) == IF n = 0 THEN <<>> ELSE <<n % B>> \o BFromInt(n \div B)

Digit(a, i) == IF i <= Len(a) THEN a[i] ELSE 0

RECURSIVE BAddC(_, _, _, _)
BAddC(a, b, i, c) ==
    IF i > Len(a) /\ i > Len(b) THEN BFromInt(c)
    ELSE LET t == Digit(a, i) + Digit(b, i) + c
         IN <<t % B>> \o BAddC(a, b, i + 1, t \div B)
BAdd(a, b) == BNorm(BAddC(a, b, 1, 0))

RECURSIVE BSubC(_, _, _, _)
BSubC(a, b, i, borrow) ==
    IF i > Len(a) THEN <<>>
    ELSE LET t == a[i] - Digit(b, i) - borrow
         IN IF t < 0 THEN <<t + B>> \o BSubC(a, b, i + 1, 1)
                     ELSE <<t>> \o BSubC(a, b, i + 1, 0)
\* a - b, for a >= b
BSub(a, b) == BNorm(BSubC(a, b, 1, 0))

RECURSIVE BScaleC(_, _, _, _)
BScaleC(a, m, i, c) ==
    IF i > Len(a) THEN BFromInt(c)
    ELSE LET t == a[i] * m + c
         IN <<t % B>> \o BScaleC(a, m, i + 1, t \div B)
\* a * m + c, for m, c < B
BScale(a, m, c) == BNorm(BScaleC(a, m, 1, c))

RECURSIVE BCmpFrom(_, _, _)
BCmpFrom(a, b, i) ==
    IF i = 0 THEN 0
    ELSE IF a[i] # b[i] THEN (IF a[i] < b[i] THEN -1 ELSE 1)
    ELSE BCmpFrom(a, b, i - 1)
\* -1, 0, 1 as a < b, a = b, a > b
BCmp(a, b) ==
    IF Len(a) # Len(b) THEN (IF Len(a) < Len(b) THEN -1 ELSE 1)
    ELSE BCmpFrom(a, b, Len(a))

BShiftDigits(a, d) == IF a = <<>> THEN a ELSE [j \in 1..d |-> 0] \o a

RECURSIVE BMulFrom(_, _, _)
BMulFrom(a, b, i) ==
    IF i > Len(b) THEN <<>>
    ELSE BAdd(BShiftDigits(BScale(a, b[i], 0), i - 1), BMulFrom(a, b, i + 1))
BMul(a, b) == BMulFrom(a, b, 1)

RECURSIVE IntBitLen(_)
IntBitLen(n) == IF n = 0 THEN 0 ELSE 1 + IntBitLen(n \div 2)
BBitLen(a) == IF a = <<>> THEN 0 ELSE 14 * (Len(a) - 1) + IntBitLen(a[Len(a)])

\* a div 2^k, a mod 2^k, 2^k
BShr(a, k) ==
    LET d == k \div 14
        r == k % 14
        x == SubSeq(a, d + 1, Len(a))
    IN BNorm([i \in 1..Len(x) |->
                 (x[i] \div 2^r) + (Digit(x, i + 1) % 2^r) * 2^(14 - r)])
BLow(a, k) ==
    LET d == k \div 14
        r == k % 14
        n == IF Len(a) < d + 1 THEN Len(a) ELSE d + 1
    IN BNorm([i \in 1..n |-> IF i <= d THEN a[i] ELSE a[i] % 2^r])
BPow2(k) == [j \in 1..(k \div 14) |-> 0] \o <<2^(k % 14)>>

\* A positive float64 is m * 2^e with 2^52 <= m < 2^53.
\* After rounding up, a mantissa of 2^53 is renormalised.
FNormal(m, e) ==
    IF BCmp(m, BPow2(53)) = 0 THEN [m |-> BPow2(52), e |-> e + 1]
    ELSE [m |-> m, e |-> e]

FLe(x, y) == x.e < y.e \/ (x.e = y.e /\ BCmp(x.m, y.m) <= 0)

\* One step of the binary digit-by-digit square root: the next two bits of
\* the radicand are brought down and the next bit of the root is decided.
RECURSIVE SqrtSteps(_, _, _, _, _)
SqrtSteps(n, pairs, i, rem, root) ==
    IF i > 53 THEN [root |-> root, rem |-> rem]
    ELSE LET pair == IF i <= pairs THEN (n \div 4^(pairs - i)) % 4 ELSE 0
             r == BScale(rem, 4, pair)
             trial == BScale(root, 4, 1)
         IN IF BCmp(r, trial) >= 0
            THEN SqrtSteps(n, pairs, i + 1, BSub(r, trial), BScale(root, 2, 1))
            ELSE SqrtSteps(n, pairs, i + 1, r, BScale(root, 2, 0))

\* np.sqrt(n), n a positive integer: the square root rounded to nearest.
\* The root of n * 4^k is taken to 53 bits; it is rounded up exactly when
\* the remainder exceeds it (the discarded part exceeds one half).
fsqrt(n) ==
    LET pairs == (IntBitLen(n) + 1) \div 2
        k == 53 - pairs
        q == SqrtSteps(n, pairs, 1, <<>>, <<>>)
        m == IF BCmp(q.rem, q.root) > 0 THEN BScale(q.root, 1, 1) ELSE q.root
    IN FNormal(m, -k)

\* x * y in float64: the exact product rounded to 53 bits, ties to even.
fmul(x, y) ==
    LET p == BMul(x.m, y.m)
        sh == BBitLen(p) - 53
        q == BShr(p, sh)
        r == BLow(p, sh)
        c == BCmp(r, BPow2(sh - 1))
        up == c > 0 \/ (c = 0 /\ Digit(q, 1) % 2 = 1)
    IN FNormal(IF up THEN BScale(q, 1, 1) ELSE q, x.e + y.e + sh)

\* The float64 literals 1.10 (0x3FF199999999999A) and 0.90 (0x3FECCCCCCCCCCCCD).
float_1_10 == [m |-> <<6554, 9830, 6553, 1126>>, e |-> -52]
float_0_90 == [m |-> <<3277, 13107, 3276, 1843>>, e |-> -53]

\* line 124: min_thresh = min_size * 1.10, for a positive radicand
min_thresh(min_size) == fmul(fsqrt(min_size), float_1_10)
\* line 125: max_thresh = max_size * 0.90, for a positive radicand
max_thresh(max_size) == fmul(fsqrt(max_size), float_0_90)

\* -1, 0, 1 as c * x < d * y, c * x = d * y, c * x > d * y (x, y radicands,
\* c, d < B), without leaving 32 bits
CmpScaled(c, x, d, y) ==
    IF x < 2^24 /\ y < 2^24
    THEN (IF c * x < d * y THEN -1 ELSE IF c * x = d * y THEN 0 ELSE 1)
    ELSE BCmp(BScale(BFromInt(x), c, 0), BScale(BFromInt(y), d, 0))

\* the test of line 127: s <= min_thresh
le_min_thresh(s, min_size) ==
    LET c == CmpScaled(100, s, 121, min_size)
    IN IF c # 0 THEN c < 0
       ELSE s = 0 \/ FLe(fsqrt(s), min_thresh(min_size))

\* the test of line 128: s >= max_thresh
ge_max_thresh_strict(s, max_size) == CmpScaled(100, s, 81, max_size) > 0
ge_max_thresh(s, max_size) ==
    LET c == CmpScaled(100, s, 81, max_size)
    IN IF c # 0 THEN c > 0
       ELSE s = 0 \/ FLe(max_thresh(max_size), fsqrt(s))

\* line 127
min_count_of_max(sizes) ==
    LET min_size == max(sizes)
    IN Cardinality({i \in DOMAIN sizes : le_min_thresh(sizes[i], min_size)})
min_count(sizes) ==
    LET min_size == min(sizes)
    IN Cardinality({i \in DOMAIN sizes : le_min_thresh(sizes[i], min_size)})

\* line 128
max_count_of_min(sizes) ==
    LET max_size == min(sizes)
    IN Cardinality({i \in DOMAIN sizes : ge_max_thresh(sizes[i], max_size)})
max_count(sizes) ==
    LET max_size == max(sizes)
    IN Cardinality({i \in DOMAIN sizes : ge_max_thresh(sizes[i], max_size)})

\* line 129
avg_count_from_len(total, sizes) == Len(sizes) - min_count(sizes) - max_count(sizes)
avg_count(total, sizes) == total - min_count(sizes) - max_count(sizes)

\* line 137: counts = [min_count, avg_count, max_count]
Counts(total, sizes) ==
    <<min_count(sizes), avg_count(total, sizes), max_count(sizes)>>

\* min_thresh >= max_thresh, on the values of lines 124-125
thresh_overlap(sizes) ==
    LET min_size == min(sizes)
        max_size == max(sizes)
        c == CmpScaled(121, min_size, 81, max_size)
    IN IF c # 0 THEN c > 0
       ELSE min_size = 0 \/ FLe(max_thresh(max_size), min_thresh(min_size))

(* ---------------- the run ---------------- *)
Init ==
    /\ pc = "input"
    /\ input_mode \in {"Upload Image", "Use Example Image", "Capture from Camera"}
    /\ source = None
    /\ img_bytes = None
    /\ requests_sent = <<>>
    /\ response = None
    /\ uncaught = "none"
    /\ total_count = 0
    /\ boxes = <<>>
    /\ status = "UNKNOWN"
    /\ risk_score = 0
    /\ sizes_nm = <<>>
    /\ counts = <<>>
    /\ rendered = <<>>

Unassigned == <<response, total_count, boxes, status, risk_score, sizes_nm, counts>>

Crash(exc) ==
    /\ pc' = "crashed"
    /\ uncaught' = exc
    /\ rendered' = Append(rendered, "exception")

\* lines 29-34
CameraInput ==
    /\ pc = "input"
    /\ input_mode = "Capture from Camera"
    /\ \E camera_image \in {None} \cup {Some(f) : f \in {g \in Files : IsImage(g)}} :
         /\ source' = camera_image
         /\ IF camera_image # None
            THEN /\ img_bytes' = Some(The(camera_image))
                 /\ rendered' = Append(rendered, "image")
            ELSE UNCHANGED <<img_bytes, rendered>>
    /\ pc' = "api"
    /\ UNCHANGED <<input_mode, requests_sent, uncaught>>
    /\ UNCHANGED Unassigned

\* lines 37-49
ExampleImage ==
    /\ pc = "input"
    /\ input_mode = "Use Example Image"
    /\ \E exists \in BOOLEAN :
         IF ~exists
         THEN /\ rendered' = Append(rendered, "error: Example_images folder not found.")
              /\ pc' = "api"
              /\ UNCHANGED <<source, img_bytes, uncaught>>
         ELSE \E names \in SUBSET (1..MaxNames) : \E dir \in [names -> Files] :
                LET example_images == sorted(names) IN
                IF example_images = <<>>
                THEN \* selectbox returns None; os.path.join(EXAMPLE_DIR, None)
                     /\ Crash("TypeError")
                     /\ UNCHANGED <<source, img_bytes>>
                ELSE \E i \in DOMAIN example_images :
                       LET selected_image == example_images[i]
                           file == dir[selected_image]
                       IN /\ source' = Some(file)
                          /\ IF IsImage(file)
                             THEN /\ img_bytes' = Some(file)
                                  /\ rendered' = Append(rendered, "image")
                                  /\ pc' = "api"
                                  /\ UNCHANGED uncaught
                             ELSE /\ Crash("UnidentifiedImageError")
                                  /\ UNCHANGED img_bytes
    /\ UNCHANGED <<input_mode, requests_sent>>
    /\ UNCHANGED Unassigned

\* lines 52-60.  Image.open(uploaded_file).convert("RGB") reads the upload
\* stream and leaves its position at some offset pos >= 1 (the signature has
\* been consumed); uploaded_file.read() then returns what follows pos.
UploadImage ==
    /\ pc = "input"
    /\ input_mode = "Upload Image"
    /\ \E uploaded_file \in {None} \cup {Some(f) : f \in Files} :
         /\ source' = uploaded_file
         /\ IF uploaded_file = None
            THEN /\ pc' = "api"
                 /\ UNCHANGED <<img_bytes, rendered, uncaught>>
            ELSE LET file == The(uploaded_file) IN
                 IF IsImage(file)
                 THEN \E pos \in 1..Len(file) :
                        /\ img_bytes' = Some(SubSeq(file, pos + 1, Len(file)))
                        /\ rendered' = Append(rendered, "image")
                        /\ pc' = "api"
                        /\ UNCHANGED uncaught
                 ELSE /\ Crash("UnidentifiedImageError")
                      /\ UNCHANGED img_bytes
    /\ UNCHANGED <<input_mode, requests_sent>>
    /\ UNCHANGED Unassigned

\* lines 63-80, with the endpoint's answer drawn from answers
ApiCallFrom(answers) ==
    /\ pc = "api"
    /\ IF has_bytes(img_bytes)
       THEN /\ requests_sent' = Append(requests_sent, The(img_bytes))
            /\ \E r \in answers :
                 /\ response' = Some(r)
                 /\ IF r.raised
                    THEN /\ rendered' = rendered \o <<"subheader: Running Detection",
                                "error: Could not connect to Detection API", "exception">>
                         /\ pc' = st_stop
                    ELSE IF r.status_code # 200
                    THEN /\ rendered' = rendered \o <<"subheader: Running Detection",
                                "error: Error from detection API", "text: response">>
                         /\ pc' = st_stop
                    ELSE /\ rendered' = Append(rendered, "subheader: Running Detection")
                         /\ pc' = "parse"
       ELSE /\ pc' = "done"
            /\ UNCHANGED <<requests_sent, response, rendered>>
    /\ UNCHANGED <<input_mode, source, img_bytes, uncaught, total_count, boxes,
                   status, risk_score, sizes_nm, counts>>

ApiCall == ApiCallFrom(FlowResponses)

\* lines 82-94
ParseResponse ==
    /\ pc = "parse"
    /\ LET r == The(response) IN
       IF ~r.json
       THEN /\ Crash("JSONDecodeError")
            /\ UNCHANGED <<total_count, boxes, status, risk_score>>
       ELSE LET data == r.data IN
            /\ total_count' = Get(data, "total_count", 0)
            /\ boxes' = Get(data, "boxes", boxes_default)
            /\ status' = Get(data, "status", "UNKNOWN")
            /\ risk_score' = Get(data, "risk_score", 0)
            /\ rendered' = rendered \o <<"subheader: Detection Summary",
                              "write: total", "write: risk", "write: status">>
            /\ pc' = "sizes"
            /\ UNCHANGED uncaught
    /\ UNCHANGED <<input_mode, source, img_bytes, requests_sent, response,
                   sizes_nm, counts>>

\* lines 97-116
SizeCalculation ==
    /\ pc = "sizes"
    /\ sizes_nm' = [i \in DOMAIN boxes |-> size_nm(boxes[i], PIXEL_TO_NM)]
    /\ rendered' = rendered \o <<"subheader: Individual Sizes">>
                            \o [i \in DOMAIN boxes |-> "write: size"]
    /\ pc' = "stats"
    /\ UNCHANGED <<input_mode, source, img_bytes, requests_sent, response,
                   uncaught, total_count, boxes, status, risk_score, counts>>

\* lines 119-149
SizeStats ==
    /\ pc = "stats"
    /\ IF sizes_nm # <<>>
       THEN /\ counts' = Counts(total_count, sizes_nm)
            /\ rendered' = rendered \o <<"subheader: Size Category Counts",
                              "write: Min", "write: Average", "write: Max", "pyplot">>
       ELSE /\ rendered' = Append(rendered, "info: No microplastics detected.")
            /\ UNCHANGED counts
    /\ pc' = "done"
    /\ UNCHANGED <<input_mode, source, img_bytes, requests_sent, response,
                   uncaught, total_count, boxes, status, risk_score, sizes_nm>>

Next ==
    \/ CameraInput
    \/ ExampleImage
    \/ UploadImage
    \/ ApiCall
    \/ ParseResponse
    \/ SizeCalculation
    \/ SizeStats

Spec == Init /\ [][Next]_vars

(* ---------------- the size computation on its own ---------------- *)
\* The run at line 82, a 200 answer in hand, for every answer within the
\* bounds of the size statistics.
SizeDicts ==
    {t @@ b @@ [status |-> "SAFE", risk_score |-> 7] :
        t \in {EmptyDict} \cup {[total_count |-> x] : x \in 0..MaxTotal},
        b \in {EmptyDict} \cup {[boxes |-> x] : x \in BoxLists(MaxBoxes)}}

\* Answers whose sizes sit exactly on a threshold of one another, where the
\* float64 rounding decides the test (sqrt(27*45) against 0.90 * sqrt(30*50),
\* 9 against 0.90 * 10, 11 against 1.10 * 10, 1.10 * 9 against 0.90 * 11,
\* 1.10 * sqrt(27*54) against 0.90 * sqrt(33*66)).
TieBoxes == {[width |-> 27, height |-> 45], [width |-> 30, height |-> 50],
             [width |-> 9, height |-> 9], [width |-> 10, height |-> 10],
             [width |-> 11, height |-> 11], [width |-> 27, height |-> 54],
             [width |-> 33, height |-> 66]}
TieDicts ==
    {[total_count |-> t, boxes |-> b, status |-> "SAFE", risk_score |-> 7] :
        t \in 0..MaxTotal, b \in [1..2 -> TieBoxes]}

InitSize ==
    /\ pc = "parse"
    /\ input_mode = "Capture from Camera"
    /\ source = Some(<<1>>)
    /\ img_bytes = Some(<<1>>)
    /\ requests_sent = <<(<<1>>)>>
    /\ response \in {Some([raised |-> FALSE, status_code |-> 200, json |-> TRUE, data |-> d]) :
                        d \in SizeDicts \cup TieDicts}
    /\ uncaught = "none"
    /\ total_count = 0
    /\ boxes = <<>>
    /\ status = "UNKNOWN"
    /\ risk_score = 0
    /\ sizes_nm = <<>>
    /\ counts = <<>>
    /\ rendered = <<"image", "subheader: Running Detection">>

NextSize ==
    \/ ParseResponse
    \/ SizeCalculation
    \/ SizeStats

SizeSpec == InitSize /\ [][NextSize]_vars

(* ================= properties ================= *)
Shown(tag) == \E i \in DOMAIN rendered : rendered[i] = tag
ResultTags == {"subheader: Detection Summary", "write: total", "write: risk",
               "write: status", "write: size", "subheader: Size Category Counts",
               "write: Min", "write: Average", "write: Max", "pyplot"}
StatTags == {"subheader: Size Category Counts", "write: Min", "write: Average",
             "write: Max", "pyplot"}
Failed(r) == r.raised \/ r.status_code # 200
AcquisitionErrors == {"TypeError", "UnidentifiedImageError"}
StatsShown == counts # <<>>

\* C1 as stated: for every non-empty box list and ANY reported total_count,
\* min_count + max_count > total_count only if min_thresh >= max_thresh.
C1_AnyTotal ==
    StatsShown =>
        (counts[1] + counts[3] > total_count => thresh_overlap(sizes_nm))

\* C1 amended: for every non-empty box list whose reported total_count is at
\* least the number of boxes, min_count + max_count > total_count only if
\* min_thresh >= max_thresh.
C1_TotalCoversBoxes ==
    (StatsShown /\ total_count >= Len(boxes)) =>
        (counts[1] + counts[3] > total_count => thresh_overlap(sizes_nm))

C1_Witness ==
    /\ pc = "done" /\ StatsShown
    /\ total_count >= Len(boxes)
    /\ Len(boxes) >= 2
    /\ counts[1] + counts[3] > total_count
    /\ thresh_overlap(sizes_nm)

\* C2: once the detection call has failed (transport error or non-200
\* status) the run is halted and none of the detection summary, the size
\* lines, the category counts or the chart is ever rendered.
C2_FailureHalts ==
    (response # None /\ Failed(The(response))) =>
        /\ pc = "stopped"
        /\ \A t \in ResultTags : ~Shown(t)
        /\ counts = <<>> /\ sizes_nm = <<>>
        /\ Shown(IF The(response).raised
                 THEN "error: Could not connect to Detection API"
                 ELSE "error: Error from detection API")

C2_Witness ==
    /\ pc = "stopped"
    /\ The(response).status_code = 500
    /\ The(response).json
    /\ Len(Get(The(response).data, "boxes", <<>>)) > 0

\* C3: a 200 answer whose JSON has an empty boxes list, or no boxes key,
\* ends in the "No microplastics detected." state: no statistics, no
\* category counts, no chart, no error.
C3_EmptyBoxes ==
    (/\ response # None
     /\ ~Failed(The(response))
     /\ The(response).json
     /\ Len(Get(The(response).data, "boxes", <<>>)) = 0) =>
        /\ uncaught = "none"
        /\ pc \in {"parse", "sizes", "stats", "done"}
        /\ counts = <<>>
        /\ \A t \in StatTags : ~Shown(t)
        /\ ~Shown("exception")
        /\ ~Shown("error: Error from detection API")
        /\ pc = "done" => rendered[Len(rendered)] = "info: No microplastics detected."

C3_Witness ==
    /\ pc = "done"
    /\ response # None
    /\ ~Failed(The(response))
    /\ The(response).json
    /\ "boxes" \notin DOMAIN The(response).data
    /\ total_count > 0
    /\ Shown("info: No microplastics detected.")

\* C4: n >= 1 boxes of one and the same size with total_count = n give
\* min_count = n, max_count = n and avg_count = -n.
C4_AllSameSize ==
    (/\ StatsShown
     /\ total_count = Len(boxes)
     /\ \A i, j \in DOMAIN sizes_nm : sizes_nm[i] = sizes_nm[j]) =>
        counts = <<Len(boxes), -Len(boxes), Len(boxes)>>

C4_Witness ==
    /\ pc = "done" /\ StatsShown
    /\ Len(boxes) = 3 /\ total_count = 3
    /\ \A i \in DOMAIN sizes_nm : sizes_nm[i] = sizes_nm[1]
    /\ \E i \in DOMAIN boxes : boxes[i] # boxes[1]
    /\ counts[2] = -3

\* C5: every POST carries, in its file field, the complete bytes of the
\* image the user submitted, whatever the input mode.
C5_PostsWholeImage ==
    \A i \in DOMAIN requests_sent : requests_sent[i] = The(source)

\* C6: at most one POST per run: none before the API step and none when no
\* bytes were obtained, exactly one otherwise, also after a failure.
C6_AtMostOnePost ==
    /\ Len(requests_sent) <= 1
    /\ pc \in {"input", "api"} => Len(requests_sent) = 0
    /\ uncaught \in AcquisitionErrors => Len(requests_sent) = 0
    /\ (pc \notin {"input", "api"} /\ uncaught \notin AcquisitionErrors) =>
          (Len(requests_sent) = 1 <=> img_bytes # None)
    /\ (response # None /\ Failed(The(response))) => Len(requests_sent) = 1

C6_Witness ==
    /\ pc = "stopped"
    /\ The(response).raised
    /\ Len(requests_sent) = 1
    /\ img_bytes = Some(<<>>)

\* C7: input acquisition always ends with image bytes or with nothing (no
\* uncaught exception): in example-image mode for every state of the example
\* directory, where an absent directory reports an error and yields no bytes
\* and no detection call; in camera and upload mode when nothing was
\* captured or chosen.
C7_BytesOrNothing ==
    /\ input_mode = "Use Example Image" => uncaught \notin AcquisitionErrors
    /\ Shown("error: Example_images folder not found.") =>
          (img_bytes = None /\ requests_sent = <<>>)
    /\ (input_mode # "Use Example Image" /\ pc # "input" /\ source = None) =>
          (img_bytes = None /\ uncaught = "none" /\ requests_sent = <<>>)

\* C8: whenever the statistics are shown, the three displayed counts sum to
\* the reported total_count.
C8_CountsSumToTotal ==
    StatsShown => counts[1] + counts[2] + counts[3] = total_count

C8_Witness ==
    /\ pc = "done" /\ StatsShown
    /\ total_count > Len(boxes)
    /\ Len(boxes) >= 2
    /\ counts[1] < Len(boxes)

\* C9: size_nm is symmetric in width and height, for any conversion
\* factor; swapping the two in every box leaves each size and the bucket
\* counts unchanged; a missing dimension counts as 0 (size 0).
swap(box) ==
    LET other(k) == IF k = "width" THEN "height" ELSE "width"
    IN [k \in {other(j) : j \in DOMAIN box} |-> box[other(k)]]
filled(box) == [width |-> Get(box, "width", 0), height |-> Get(box, "height", 0)]
SwappedSizes == [i \in DOMAIN boxes |-> size_nm(swap(boxes[i]), PIXEL_TO_NM)]

C9_Symmetric ==
    pc \in {"stats", "done"} =>
        /\ Len(sizes_nm) = Len(boxes)
        /\ sizes_nm = SwappedSizes
        /\ StatsShown => counts = Counts(total_count, SwappedSizes)
        /\ \A i \in DOMAIN boxes :
              /\ \A p \in {1, 10, PIXEL_TO_NM} :
                    size_nm(swap(boxes[i]), p) = size_nm(boxes[i], p)
              /\ sizes_nm[i] = size_nm(filled(boxes[i]), PIXEL_TO_NM)
              /\ DOMAIN boxes[i] # {"width", "height"} => sizes_nm[i] = 0

C9_Witness ==
    /\ pc = "done" /\ StatsShown
    /\ \E i \in DOMAIN boxes :
          /\ DOMAIN boxes[i] = {"width", "height"}
          /\ boxes[i].width # boxes[i].height
          /\ sizes_nm[i] > 0
    /\ \E i \in DOMAIN boxes :
          /\ DOMAIN boxes[i] = {"width"}
          /\ boxes[i].width > 0
          /\ sizes_nm[i] = 0

\* C10: with a non-empty box list, total_count = len(boxes) and
\* min_thresh < max_thresh, no size is in both threshold buckets and
\* avg_count is the number of sizes strictly between the thresholds, so
\* avg_count >= 0, min_count >= 1 and max_count >= 1.
Low(s, lo) == le_min_thresh(s, lo)
High(s, hi) == ge_max_thresh(s, hi)

C10_ThreeWayPartition ==
    (StatsShown /\ total_count = Len(boxes) /\ ~thresh_overlap(sizes_nm)) =>
        LET lo == min(sizes_nm)
            hi == max(sizes_nm)
            I == DOMAIN sizes_nm
        IN /\ counts[2] = Cardinality({i \in I : ~Low(sizes_nm[i], lo) /\ ~High(sizes_nm[i], hi)})
           /\ \A i \in I : ~(Low(sizes_nm[i], lo) /\ High(sizes_nm[i], hi))
           /\ counts[1] = Cardinality({i \in I : Low(sizes_nm[i], lo)})
           /\ counts[3] = Cardinality({i \in I : High(sizes_nm[i], hi)})
           /\ counts[2] >= 0 /\ counts[1] >= 1 /\ counts[3] >= 1

C10_Witness ==
    /\ pc = "done"
    /\ total_count = 3 /\ Len(boxes) = 3
    /\ ~thresh_overlap(sizes_nm)
    /\ counts = <<1, 1, 1>>

\* The rounding cases of the threshold tests are among the states checked:
\* sqrt(27*45) falls just below 0.90 * sqrt(30*50), and 1.10 * sqrt(27*54)
\* just below 0.90 * sqrt(33*66), although the exact values coincide.
TieStatesReached ==
    \/ pc = "done" /\ sizes_nm = <<12150000, 15000000>> /\ total_count = 2
          /\ counts = <<1, 0, 1>>
    \/ pc = "done" /\ sizes_nm = <<14580000, 21780000>> /\ total_count = 2
          /\ counts = <<1, 0, 1>> /\ ~thresh_overlap(sizes_nm)

====
